---------------------------- MODULE Spec2Model ----------------------------
(***************************************************************************)
(* Floor-plan browsing, filtering and comparison of the marketing hub:     *)
(*   FloorPlans + FloorPlanComparisonModal                                 *)
(*       (src/src/components/FloorPlanComparisonModal.tsx)                 *)
(*   FilterandNav   (src/unnamed/part_000)                                 *)
(*   App            (src/unnamed/part_001)                                 *)
(*                                                                         *)
(* Conventions.  A JavaScript string is a tuple of one-character strings   *)
(* (<<"3", ".", "5">> is "3.5"), so that parseFloat / parseInt and the     *)
(* template literals are computed character by character.  Texts that are  *)
(* only displayed are TLA+ strings.  null and undefined are Null where an   *)
(* object is expected, NullStr where a string is expected and NoSide for    *)
(* the picker's side.  A JavaScript number is a record [nan, scaled, scale] *)
(* standing for scaled / scale (scale a power of 10).                       *)
(***************************************************************************)
EXTENDS Integers, Sequences, FiniteSets, TLC

VARIABLES
    query,               \* what useFloorPlans returns: isLoading, isError, error, data
    config,              \* the ProjectConfig prop (its projects)
    filters,             \* App's FloorPlanFilters state
    favorites,           \* the ids held by the favorites store
    isCompareModalOpen,  \* FloorPlans state, the modal's isOpen prop
    leftFloorPlan,       \* FloorPlanComparisonModal state
    rightFloorPlan,      \* FloorPlanComparisonModal state
    pickerSide,          \* FloorPlanComparisonModal state: NoSide, <<0>> or <<1>>
    isExpanded,          \* FloorPlanComparisonModal state
    fmt,                 \* the last bed/bath value rendered and its four labels
    hist                 \* history: the last event and what it acted on

vars == <<query, config, filters, favorites,
          isCompareModalOpen, leftFloorPlan, rightFloorPlan, pickerSide,
          isExpanded, fmt, hist>>

-----------------------------------------------------------------------------
(* Bounds of the model. *)

\* longest bed/bath string given to the formatting functions
MaxStrLen == 3
\* longest fetched list in the filtering specification
MaxPlans == 2
\* longest fetched list in the comparison specification
MaxFetched == 4

-----------------------------------------------------------------------------
(* JavaScript values. *)

Null == [null |-> TRUE]

\* null or undefined in the place of a string: no string has a character "null"
NullStr == <<"null">>

\* null in the place of the picker's side, which is <<0>> or <<1>> otherwise
NoSide == <<>>

\* truthiness of a string | null | undefined
Truthy(s) == s # NullStr /\ s # <<>>

\* a || b on strings
OrElse(a, b) == IF Truthy(a) THEN a ELSE b

NaN == [nan |-> TRUE]

Num(n, d) == [nan |-> FALSE, scaled |-> n, scale |-> d]

IntNum(n) == Num(n, 1)

DigitChars == <<"0", "1", "2", "3", "4", "5", "6", "7", "8", "9">>

IsDigit(c) == \E i \in 1..Len(DigitChars) : DigitChars[i] = c

DigitVal(c) == (CHOOSE i \in 1..Len(DigitChars) : DigitChars[i] = c) - 1

IsWhiteSpace(c) == c = " "

RECURSIVE TrimStart(_)
TrimStart(s) ==
    IF s # <<>> /\ IsWhiteSpace(Head(s)) THEN TrimStart(Tail(s)) ELSE s

\* the longest prefix of s made of decimal digits
RECURSIVE DigitPrefix(_)
DigitPrefix(s) ==
    IF s # <<>> /\ IsDigit(Head(s))
    THEN <<Head(s)>> \o DigitPrefix(Tail(s))
    ELSE <<>>

RECURSIVE DigitsToNat(_)
DigitsToNat(d) ==
    IF d = <<>> THEN 0
    ELSE DigitsToNat(SubSeq(d, 1, Len(d) - 1)) * 10 + DigitVal(d[Len(d)])

RECURSIVE Pow10(_)
Pow10(k) == IF k = 0 THEN 1 ELSE 10 * Pow10(k - 1)

\* parseFloat(str) of a string without exponent part
parseFloat(str) ==
    LET t      == TrimStart(str)
        signed == t # <<>> /\ Head(t) \in {"-", "+"}
        sgn    == IF t # <<>> /\ Head(t) = "-" THEN -1 ELSE 1
        u      == IF signed THEN Tail(t) ELSE t
        ip     == DigitPrefix(u)
        r      == SubSeq(u, Len(ip) + 1, Len(u))
        fp     == IF r # <<>> /\ Head(r) = "." THEN DigitPrefix(Tail(r)) ELSE <<>>
    IN  IF ip = <<>> /\ fp = <<>> THEN NaN
        ELSE Num(sgn * (DigitsToNat(ip) * Pow10(Len(fp)) + DigitsToNat(fp)),
                 Pow10(Len(fp)))

\* parseInt(str, 10)
parseInt(str) ==
    LET t      == TrimStart(str)
        signed == t # <<>> /\ Head(t) \in {"-", "+"}
        sgn    == IF t # <<>> /\ Head(t) = "-" THEN -1 ELSE 1
        u      == IF signed THEN Tail(t) ELSE t
        ip     == DigitPrefix(u)
    IN  IF ip = <<>> THEN NaN ELSE IntNum(sgn * DigitsToNat(ip))

isNaN(num) == num.nan

Math_floor(num) == IF num.nan THEN NaN ELSE IntNum(num.scaled \div num.scale)

\* num % 1 !== 0
HasFraction(num) == IF num.nan THEN TRUE ELSE num.scaled % num.scale # 0

\* a !== b on numbers (NaN differs from everything)
NumNotEq(a, b) ==
    IF a.nan \/ b.nan THEN TRUE ELSE a.scaled * b.scale # b.scaled * a.scale

\* a < b on numbers (false when either is NaN)
NumLess(a, b) ==
    IF a.nan \/ b.nan THEN FALSE ELSE a.scaled * b.scale < b.scaled * a.scale

RECURSIVE NatToStr(_)
NatToStr(n) ==
    IF n < 10 THEN <<DigitChars[n + 1]>>
    ELSE NatToStr(n \div 10) \o <<DigitChars[(n % 10) + 1]>>

\* `${whole}` of a whole number or NaN
NumToStr(num) ==
    IF num.nan THEN <<"N", "a", "N">>
    ELSE LET n == num.scaled \div num.scale
         IN  IF n < 0 THEN <<"-">> \o NatToStr(-n) ELSE NatToStr(n)

-----------------------------------------------------------------------------
(* The formatting functions. *)

S_Bed    == <<" ", "B", "e", "d">>
S_Bath   == <<" ", "B", "a", "t", "h">>
S_Den    == <<" ", "+", " ", "D", "e", "n">>
S_Powder == <<" ", "+", " ", "P", "o", "w", "d", "e", "r">>
S_0Beds  == <<"0", " ", "B", "e", "d", "s">>
S_0Baths == <<"0", " ", "B", "a", "t", "h", "s">>

\* whole !== 1 ? "s" : ""
PluralOf_Mutant(whole) == IF NumLess(IntNum(1), whole) THEN <<"s">> ELSE <<>>

PluralOf(whole) == IF NumNotEq(whole, IntNum(1)) THEN <<"s">> ELSE <<>>

\* FloorPlanComparisonModal.formatBedrooms
formatBedrooms(beds) ==
    IF ~Truthy(beds) THEN <<>>
    ELSE LET num == parseFloat(beds)
         IN  IF isNaN(num) THEN beds
             ELSE LET whole      == Math_floor(num)
                      hasDecimal == HasFraction(num)
                      plural     == PluralOf(whole)
                  IN  IF hasDecimal
                      THEN NumToStr(whole) \o S_Bed \o plural \o S_Den
                      ELSE NumToStr(whole) \o S_Bed \o plural

\* FloorPlanComparisonModal.formatBathrooms
formatBathrooms(baths) ==
    IF ~Truthy(baths) THEN <<>>
    ELSE LET num == parseFloat(baths)
         IN  IF isNaN(num) THEN baths
             ELSE LET whole      == Math_floor(num)
                      hasDecimal == HasFraction(num)
                      plural     == PluralOf(whole)
                  IN  IF hasDecimal
                      THEN NumToStr(whole) \o S_Bath \o plural \o S_Powder
                      ELSE NumToStr(whole) \o S_Bath \o plural

\* FilterandNav.formatBedrooms
Nav_formatBedrooms(beds) ==
    IF ~Truthy(beds) THEN S_0Beds
    ELSE LET num        == parseFloat(beds)
             whole      == Math_floor(num)
             hasDecimal == HasFraction(num)
             plural     == IF NumNotEq(whole, IntNum(1)) THEN <<"s">> ELSE <<>>
         IN  IF hasDecimal
             THEN NumToStr(whole) \o S_Bed \o plural \o S_Den
             ELSE NumToStr(whole) \o S_Bed \o plural

\* FilterandNav.formatBathrooms
Nav_formatBathrooms(baths) ==
    IF ~Truthy(baths) THEN S_0Baths
    ELSE LET num        == parseFloat(baths)
             whole      == Math_floor(num)
             hasDecimal == HasFraction(num)
             plural     == IF NumNotEq(whole, IntNum(1)) THEN <<"s">> ELSE <<>>
         IN  IF hasDecimal
             THEN NumToStr(whole) \o S_Bath \o plural \o S_Powder
             ELSE NumToStr(whole) \o S_Bath \o plural


-----------------------------------------------------------------------------
(* Floor plans, project configuration, fetched data. *)

Str(c) == <<c>>

Plan(id, projectId, beds, baths, total, interior) ==
    [id |-> id, projectId |-> projectId, bedRooms |-> beds, bathRooms |-> baths,
     totalSize |-> total, interiorSize |-> interior]

Project(projectId, name) == [projectId |-> projectId, name |-> name]

S_1    == <<"1">>
S_2    == <<"2">>
S_2_5  == <<"2", ".", "5">>
S_900  == <<"9", "0", "0">>
S_1000 == <<"1", "0", "0", "0">>
S_1200 == <<"1", "2", "0", "0">>
S_1500 == <<"1", "5", "0", "0">>
S_2000 == <<"2", "0", "0", "0">>
S_NA   == <<"N", "/", "A">>

\* the plain project configuration
PlainConfig ==
    <<Project(Str("p"), Str("A")), Project(Str("q"), Str("B"))>>

\* project configurations: a plain one; one with a repeated projectId, a project
\* without projectId and a project with an empty name
Configs ==
    { PlainConfig,
      <<Project(Str("p"), Str("B")), Project(Str("p"), Str("A")),
        Project(NullStr, Str("B")), Project(Str("q"), <<>>)>> }

\* floor plans of the filtering specification
FilterPlans ==
    { Plan(Str("a"), Str("p"), S_1,   S_1,  S_1000, NullStr),
      Plan(Str("b"), Str("p"), S_2_5, S_2,  NullStr, S_1500),
      Plan(Str("c"), Str("q"), S_1,   S_2,  <<>>,   NullStr),
      Plan(Str("d"), NullStr,  S_2_5, S_1,  S_NA,   S_1200),
      Plan(Str("e"), Str("q"), NullStr, NullStr, S_2000, S_900),
      Plan(Str("f"), Str("r"), S_1,   S_2,  S_1200, S_2000),
      Plan(Str("g"), Str("p"), S_2_5, S_1,  <<>>,   S_900),
      Plan(Str("h"), <<>>,     <<>>,  S_2,  NullStr, S_NA) }

SeqsUpTo(S, n) == UNION { [1..k -> S] : k \in 0..n }

Range(s) == { s[i] : i \in DOMAIN s }

\* a response object that has no data property
NoListResponse == [success |-> FALSE]

\* the response object of the fetch: undefined, without a list, or with a list
Responses(lists) == {Null, NoListResponse} \cup { [data |-> l] : l \in lists }

FilterLists == SeqsUpTo(FilterPlans, MaxPlans)

\* floor plans of the comparison specification: the second and the third share
\* an id, the fifth has an empty id
ModalPool ==
    << Plan(Str("b"), Str("p"), S_2_5, S_2, NullStr, S_1500),
       Plan(Str("a"), Str("p"), S_1,   S_1, S_1000, NullStr),
       Plan(Str("a"), Str("q"), S_2_5, S_2, S_2000, NullStr),
       Plan(Str("c"), Str("q"), S_1,   S_2, <<>>,   NullStr),
       Plan(<<>>,     NullStr,  S_1,   S_1, S_900,  NullStr) >>

\* the windows of ModalPool of at most MaxFetched plans
ModalLists ==
    { SubSeq(ModalPool, i, j) :
        i \in 1..(Len(ModalPool) + 1),
        j \in 0..Len(ModalPool) } \cap SeqsUpTo(Range(ModalPool), MaxFetched)

\* data?.data is truthy
HasList(q) == q.data # Null /\ "data" \in DOMAIN q.data

\* data?.data, or the empty list where the code returns []
DataList(q) == IF HasList(q) THEN q.data.data ELSE <<>>

ClearedFilters ==
    [projectName |-> <<>>, bedrooms |-> <<>>, bathrooms |-> <<>>, sizeRange |-> Null]

\* the options of the size select
SizeOptions ==
    { [min |-> 0, max |-> 1000], [min |-> 1000, max |-> 1500],
      [min |-> 1500, max |-> 2000], [min |-> 2000, max |-> 99999] }

-----------------------------------------------------------------------------
(* getProjectName and the two filters. *)

MapSet(m, k, v) == [x \in (DOMAIN m) \cup {k} |-> IF x = k THEN v ELSE m[x]]

MapGet(m, k) == IF k \in DOMAIN m THEN m[k] ELSE NullStr

EmptyMap == [x \in {} |-> NullStr]

RECURSIVE BuildNameMap(_, _)
BuildNameMap(projects, map) ==
    IF projects = <<>> THEN map
    ELSE LET project == Head(projects)
         IN  BuildNameMap(Tail(projects),
                          IF Truthy(project.projectId)
                          THEN MapSet(map, project.projectId, project.name)
                          ELSE map)

projectNameMap(cfg) == BuildNameMap(cfg, EmptyMap)

getProjectName(cfg, projectId) ==
    IF ~Truthy(projectId) THEN NullStr
    ELSE LET name == MapGet(projectNameMap(cfg), projectId)
         IN  IF Truthy(name) THEN name ELSE NullStr

\* parseInt(fp.totalSize || fp.interiorSize || "0", 10)
SizeOf(fp) == parseInt(OrElse(OrElse(fp.totalSize, fp.interiorSize), <<"0">>))

\* the mutant keeps a plan that one active filter matches
FloorPlans_keeps_AnyMutant(fp, f, cfg) ==
    \/ ~Truthy(f.projectName) /\ ~Truthy(f.bedrooms) /\ ~Truthy(f.bathrooms)
       /\ f.sizeRange = Null
    \/ Truthy(f.projectName) /\ getProjectName(cfg, fp.projectId) = f.projectName
    \/ Truthy(f.bedrooms) /\ fp.bedRooms = f.bedrooms
    \/ Truthy(f.bathrooms) /\ fp.bathRooms = f.bathrooms
    \/ /\ f.sizeRange # Null
       /\ ~(\/ NumLess(SizeOf(fp), IntNum(f.sizeRange.min))
            \/ NumLess(IntNum(f.sizeRange.max), SizeOf(fp)))

\* the mutant excludes the upper bound of the range
FloorPlans_keeps_Mutant(fp, f, cfg) ==
    /\ Truthy(f.projectName) => getProjectName(cfg, fp.projectId) = f.projectName
    /\ ~(Truthy(f.bedrooms) /\ fp.bedRooms # f.bedrooms)
    /\ ~(Truthy(f.bathrooms) /\ fp.bathRooms # f.bathrooms)
    /\ f.sizeRange # Null =>
          ~(\/ NumLess(SizeOf(fp), IntNum(f.sizeRange.min))
            \/ ~NumLess(SizeOf(fp), IntNum(f.sizeRange.max)))

\* the callback of data.data.filter in FloorPlans
FloorPlans_keeps(fp, f, cfg) ==
    /\ Truthy(f.projectName) => getProjectName(cfg, fp.projectId) = f.projectName
    /\ ~(Truthy(f.bedrooms) /\ fp.bedRooms # f.bedrooms)
    /\ ~(Truthy(f.bathrooms) /\ fp.bathRooms # f.bathrooms)
    /\ f.sizeRange # Null =>
          ~(\/ NumLess(SizeOf(fp), IntNum(f.sizeRange.min))
            \/ NumLess(IntNum(f.sizeRange.max), SizeOf(fp)))

\* FloorPlans.filteredFloorPlans
filteredFloorPlansOf(q, f, cfg) ==
    IF ~HasList(q) THEN <<>>
    ELSE SelectSeq(q.data.data, LAMBDA fp : FloorPlans_keeps(fp, f, cfg))

filteredFloorPlans == filteredFloorPlansOf(query, filters, config)

\* the callback of data.data.filter in FilterandNav
RECURSIVE Nav_countKept(_, _, _)
Nav_countKept(list, f, cfg) ==
    IF list = <<>> THEN 0
    ELSE LET fp   == Head(list)
             size == parseInt(OrElse(OrElse(fp.totalSize, fp.interiorSize), <<"0">>))
             drop ==
                 \/ /\ Truthy(f.projectName)
                    /\ getProjectName(cfg, fp.projectId) # f.projectName
                 \/ Truthy(f.bedrooms) /\ fp.bedRooms # f.bedrooms
                 \/ Truthy(f.bathrooms) /\ fp.bathRooms # f.bathrooms
                 \/ /\ f.sizeRange # Null
                    /\ \/ NumLess(size, IntNum(f.sizeRange.min))
                       \/ NumLess(IntNum(f.sizeRange.max), size)
         IN  (IF drop THEN 0 ELSE 1) + Nav_countKept(Tail(list), f, cfg)

\* FilterandNav.filteredCount
filteredCountOf(q, f, cfg) ==
    IF ~HasList(q) THEN 0 ELSE Nav_countKept(q.data.data, f, cfg)

filteredCount == filteredCountOf(query, filters, config)

\* FilterandNav.filterOptions (the option values, without their order)
filterOptionsOf(list, cfg) ==
    LET idx == 1..Len(list)
    IN  [projects  |-> { getProjectName(cfg, list[i].projectId) : i \in idx } \ {NullStr},
         bedrooms  |-> { list[i].bedRooms : i \in { j \in idx : Truthy(list[j].bedRooms) } },
         bathrooms |-> { list[i].bathRooms : i \in { j \in idx : Truthy(list[j].bathRooms) } }]

filterOptions == filterOptionsOf(DataList(query), config)

\* Every option value some response offers.  The filters outlive the response
\* they were chosen under, so a filter may hold any of them whatever the data.
FilterValues ==
    [key \in {"projects", "bedrooms", "bathrooms"} |->
        UNION { filterOptionsOf(<<fp>>, cfg)[key] : fp \in FilterPlans, cfg \in Configs }]

-----------------------------------------------------------------------------
(* What FloorPlans renders. *)

\* the values the error of a failed fetch may have
Errors == {Null, [message |-> ""], [message |-> "Network Error"]}

\* a pending or failed fetch: the flags and the error change, the response stays
StatusResults(q) ==
    { [isLoading |-> l, isError |-> FALSE, error |-> Null, data |-> q.data] :
        l \in BOOLEAN }
    \cup { [isLoading |-> l, isError |-> TRUE, error |-> er, data |-> q.data] :
             l \in BOOLEAN, er \in Errors }

\* the results of a settled, successful fetch
SuccessResults(lists) ==
    { [isLoading |-> FALSE, isError |-> FALSE, error |-> Null, data |-> d] :
        d \in Responses(lists) }

\* error?.message || "Unknown error"
ErrorMessage(error) ==
    IF error # Null /\ error.message # "" THEN error.message ELSE "Unknown error"

\* the mutant takes every fetched floor plan for a favorite
favoritedFloorPlansOf_Mutant(q, favs) ==
    IF ~HasList(q) THEN <<>> ELSE q.data.data

\* FloorPlans.favoritedFloorPlans
favoritedFloorPlansOf(q, favs) ==
    IF ~HasList(q) THEN <<>>
    ELSE SelectSeq(q.data.data, LAMBDA fp : fp.id \in favs)

favoritedFloorPlans == favoritedFloorPlansOf(query, favorites)

canCompare == Len(favoritedFloorPlans) >= 2

NothingRendered ==
    [grid |-> FALSE, cards |-> <<>>, compareButton |-> FALSE, detailModal |-> FALSE,
     comparisonModal |-> FALSE, handlers |-> {}]

\* the mutant tests for missing data before it tests for the error
ViewOf_Mutant(q, f, cfg, favs) ==
    IF q.isLoading
    THEN [kind |-> "loading", text |-> <<"Loading floor plans...">>] @@ NothingRendered
    ELSE IF ~HasList(q) \/ Len(q.data.data) = 0
    THEN [kind |-> "empty", text |-> <<"No floor plans available">>] @@ NothingRendered
    ELSE IF q.isError
    THEN [kind |-> "error",
          text |-> <<"Error loading floor plans: ", ErrorMessage(q.error)>>]
         @@ NothingRendered
    ELSE [kind |-> "main", text |-> <<>>, grid |-> TRUE,
          cards |-> filteredFloorPlansOf(q, f, cfg),
          compareButton |-> Len(favoritedFloorPlansOf(q, favs)) >= 2,
          detailModal |-> TRUE, comparisonModal |-> TRUE,
          handlers |-> {"handleCloseModal", "handleCloseCompare"}
                       \cup (IF Len(filteredFloorPlansOf(q, f, cfg)) > 0
                             THEN {"handleToggleFavorite", "handleCardClick"} ELSE {})
                       \cup (IF Len(favoritedFloorPlansOf(q, favs)) >= 2
                             THEN {"handleOpenCompare"} ELSE {})]

\* the return statements of FloorPlans: the container shown, its text, the
\* elements rendered and the handlers attached to them
ViewOf(q, f, cfg, favs) ==
    IF q.isLoading
    THEN [kind |-> "loading", text |-> <<"Loading floor plans...">>] @@ NothingRendered
    ELSE IF q.isError
    THEN [kind |-> "error",
          text |-> <<"Error loading floor plans: ", ErrorMessage(q.error)>>]
         @@ NothingRendered
    ELSE IF ~HasList(q) \/ Len(q.data.data) = 0
    THEN [kind |-> "empty", text |-> <<"No floor plans available">>] @@ NothingRendered
    ELSE [kind |-> "main",
          text |-> IF Len(filteredFloorPlansOf(q, f, cfg)) = 0
                   THEN <<"No floor plans match your filters">> ELSE <<>>,
          grid |-> TRUE,
          cards |-> filteredFloorPlansOf(q, f, cfg),
          compareButton |-> Len(favoritedFloorPlansOf(q, favs)) >= 2,
          detailModal |-> TRUE, comparisonModal |-> TRUE,
          handlers |-> {"handleCloseModal", "handleCloseCompare"}
                       \cup (IF Len(filteredFloorPlansOf(q, f, cfg)) > 0
                             THEN {"handleToggleFavorite", "handleCardClick"} ELSE {})
                       \cup (IF Len(favoritedFloorPlansOf(q, favs)) >= 2
                             THEN {"handleOpenCompare"} ELSE {})]

View == ViewOf(query, filters, config, favorites)

\* the comparison modal is mounted exactly when FloorPlans reaches its last return
Mounted(q) == ~q.isLoading /\ ~q.isError /\ HasList(q) /\ Len(DataList(q)) > 0

-----------------------------------------------------------------------------
(* The comparison modal. *)

ModalSt ==
    [leftFloorPlan |-> leftFloorPlan, rightFloorPlan |-> rightFloorPlan,
     pickerSide |-> pickerSide, isExpanded |-> isExpanded]

\* the useState initial values
FreshModal ==
    [leftFloorPlan |-> Null, rightFloorPlan |-> Null, pickerSide |-> NoSide,
     isExpanded |-> FALSE]

SetModal(st) ==
    /\ leftFloorPlan' = st.leftFloorPlan
    /\ rightFloorPlan' = st.rightFloorPlan
    /\ pickerSide' = st.pickerSide
    /\ isExpanded' = st.isExpanded

\* leftFloorPlan?.id
IdOf(fp) == IF fp = Null THEN NullStr ELSE fp.id

\* the mutant forgets to exclude the right side
candidateFloorPlansOf_Mutant(isOpen, favs, left, right) ==
    IF ~isOpen THEN <<>>
    ELSE LET excludedIds == { x \in {IdOf(left)} : Truthy(x) }
         IN  SelectSeq(favs, LAMBDA fp : Truthy(fp.id) /\ fp.id \notin excludedIds)

\* FloorPlanComparisonModal.candidateFloorPlans
candidateFloorPlansOf(isOpen, favs, left, right) ==
    IF ~isOpen THEN <<>>
    ELSE LET excludedIds == { x \in {IdOf(left), IdOf(right)} : Truthy(x) }
         IN  SelectSeq(favs, LAMBDA fp : Truthy(fp.id) /\ fp.id \notin excludedIds)

candidateFloorPlans ==
    candidateFloorPlansOf(isCompareModalOpen, favoritedFloorPlans,
                          leftFloorPlan, rightFloorPlan)

\* the mutant also lists the picker's candidates
floorPlansToCompare_Mutant ==
    SelectSeq(<<leftFloorPlan, rightFloorPlan>> \o candidateFloorPlans,
              LAMBDA fp : fp # Null)

\* FloorPlanComparisonModal.floorPlansToCompare
floorPlansToCompare ==
    SelectSeq(<<leftFloorPlan, rightFloorPlan>>, LAMBDA fp : fp # Null)

\* the modal returns its JSX: mounted, open, and two favorites or more
ModalRendered ==
    Mounted(query) /\ isCompareModalOpen /\ Len(favoritedFloorPlans) >= 2

\* the effect "Initialize with first two favorites"
InitEffect(isOpen, favs, st) ==
    IF isOpen /\ Len(favs) >= 2
    THEN [st EXCEPT !.leftFloorPlan = favs[1], !.rightFloorPlan = favs[2]]
    ELSE st

\* the mutant resets the picker only
ResetEffect_Mutant(isOpen, st) ==
    IF ~isOpen THEN [st EXCEPT !.pickerSide = NoSide] ELSE st

\* the effect "Reset when modal closes"
ResetEffect(isOpen, st) ==
    IF ~isOpen
    THEN [st EXCEPT !.pickerSide = NoSide, !.isExpanded = FALSE]
    ELSE st

\* the mutant leaves favoritedFloorPlans out of the dependencies
InitDepsChanged_OpenOnlyMutant(oldOpen, newOpen, favsChanged) == oldOpen # newOpen

\* the mutant leaves isOpen out of the dependencies
InitDepsChanged_Mutant(oldOpen, newOpen, favsChanged) == favsChanged

\* the dependency array [isOpen, favoritedFloorPlans]
InitDepsChanged(oldOpen, newOpen, favsChanged) == oldOpen # newOpen \/ favsChanged

\* the dependency array [isOpen]
ResetDepsChanged(oldOpen, newOpen) == oldOpen # newOpen

\* the effects of one commit, in their order in the component
RunEffects(isOpen, favs, initRuns, resetRuns, st) ==
    LET s1 == IF initRuns THEN InitEffect(isOpen, favs, st) ELSE st
    IN  IF resetRuns THEN ResetEffect(isOpen, s1) ELSE s1

\* the mutant runs the first effect after every render
AfterRender_Mutant(q2, favs2, open2, favsChanged, st) ==
    IF ~Mounted(q2) THEN FreshModal
    ELSE IF ~Mounted(query)
    THEN RunEffects(open2, favoritedFloorPlansOf(q2, favs2), TRUE, TRUE, FreshModal)
    ELSE RunEffects(open2, favoritedFloorPlansOf(q2, favs2), TRUE,
                    ResetDepsChanged(isCompareModalOpen, open2), st)

\* The modal's state once the render that follows a handler is committed and its
\* effects have run.  q2, favs2, open2: the query, the favorites and isOpen after
\* the handler; favsChanged: favoritedFloorPlans is a new array; st: the modal's
\* state after the handler's own setState calls.  The state of an unmounted
\* modal is discarded; a mounting modal starts fresh and runs every effect.
AfterRender(q2, favs2, open2, favsChanged, st) ==
    IF ~Mounted(q2) THEN FreshModal
    ELSE IF ~Mounted(query)
    THEN RunEffects(open2, favoritedFloorPlansOf(q2, favs2), TRUE, TRUE, FreshModal)
    ELSE RunEffects(open2, favoritedFloorPlansOf(q2, favs2),
                    InitDepsChanged(isCompareModalOpen, open2, favsChanged),
                    ResetDepsChanged(isCompareModalOpen, open2), st)


-----------------------------------------------------------------------------
(* The events. *)

\* history: the event, whether a side was replaced since the favorites and the
\* data last changed, and whether the event closed a modal whose picker was open
\* and whose images were expanded
Event(name, replaced) ==
    hist' = [last |-> name, replaced |-> replaced,
             dirty |-> name = "close" /\ pickerSide # NoSide /\ isExpanded]

\* The favorites store's toggle: the id is removed when present, added when not.
toggleFavorite(favs, floorPlanId) ==
    IF floorPlanId \in favs THEN favs \ {floorPlanId} ELSE favs \cup {floorPlanId}

\* The hook returns a new result: the response is a new one, or stays what it
\* was while the flags and the error change.  The list of the result is a new
\* array when it differs from the old one, and may or may not be one when it is
\* equal.
FetchUpdate(results) ==
    \E q2 \in results \cup StatusResults(query), favsChanged \in BOOLEAN :
        /\ q2 # query
        /\ DataList(q2) # DataList(query) \/ HasList(q2) # HasList(query) => favsChanged
        /\ query' = q2
        /\ SetModal(AfterRender(q2, favorites, isCompareModalOpen, favsChanged, ModalSt))
        /\ Event("fetch", FALSE)
        /\ UNCHANGED <<config, filters, favorites, isCompareModalOpen, fmt>>

\* the settled fetches of the two specifications
ModalResults == SuccessResults(ModalLists)

FilterResults == SuccessResults(FilterLists)

\* The first response of the fetch arrives.
FirstFetch(results) ==
    /\ query.isLoading
    /\ FetchUpdate(results)

\* the heart of a rendered card
handleToggleFavorite ==
    \E i \in 1..Len(View.cards) :
        /\ "handleToggleFavorite" \in View.handlers
        /\ favorites' = toggleFavorite(favorites, View.cards[i].id)
        /\ SetModal(AfterRender(query, favorites', isCompareModalOpen, TRUE, ModalSt))
        /\ Event("favorite", FALSE)
        /\ UNCHANGED <<query, config, filters,
                       isCompareModalOpen, fmt>>

\* the Compare button; a click while isCompareModalOpen is true sets the value
\* it has, which renders nothing anew
handleOpenCompare ==
    /\ "handleOpenCompare" \in View.handlers
    /\ ~isCompareModalOpen
    /\ isCompareModalOpen' = TRUE
    /\ SetModal(AfterRender(query, favorites, TRUE, FALSE, ModalSt))
    /\ Event("open", hist.replaced)
    /\ UNCHANGED <<query, config, filters, favorites, fmt>>

\* onClose: the backdrop and the footer's close button
handleCloseCompare ==
    /\ ModalRendered
    /\ isCompareModalOpen' = FALSE
    /\ SetModal(AfterRender(query, favorites, FALSE, FALSE, ModalSt))
    /\ Event("close", hist.replaced)
    /\ UNCHANGED <<query, config, filters, favorites, fmt>>

\* setPickerSide(0 | 1) of the Compare Others buttons, setPickerSide(null) of the
\* picker's backdrop and close button
setPickerSide(side) ==
    /\ ModalRendered
    /\ side = NoSide => pickerSide # NoSide
    /\ SetModal(AfterRender(query, favorites, isCompareModalOpen, FALSE,
                            [ModalSt EXCEPT !.pickerSide = side]))
    /\ Event("picker", hist.replaced)
    /\ UNCHANGED <<query, config, filters, favorites,
                   isCompareModalOpen, fmt>>

\* the state the handler leaves behind
ReplaceIn(st, sideIndex, floorPlan) ==
    IF sideIndex = 0
    THEN [st EXCEPT !.leftFloorPlan = floorPlan, !.pickerSide = NoSide]
    ELSE [st EXCEPT !.rightFloorPlan = floorPlan, !.pickerSide = NoSide]

\* a click on an item of the picker
handleReplaceFloorPlan(i) ==
    /\ ModalRendered
    /\ pickerSide # NoSide
    /\ i \in 1..Len(candidateFloorPlans)
    /\ SetModal(AfterRender(query, favorites, isCompareModalOpen, FALSE,
                            ReplaceIn(ModalSt, pickerSide[1], candidateFloorPlans[i])))
    /\ Event("replace", TRUE)
    /\ UNCHANGED <<query, config, filters, favorites,
                   isCompareModalOpen, fmt>>

\* the zoom button: setIsExpanded((prev) => !prev)
toggleZoom ==
    /\ ModalRendered
    /\ SetModal(AfterRender(query, favorites, isCompareModalOpen, FALSE,
                            [ModalSt EXCEPT !.isExpanded = ~isExpanded]))
    /\ Event("zoom", hist.replaced)
    /\ UNCHANGED <<query, config, filters, favorites,
                   isCompareModalOpen, fmt>>

\* the values the selects and the chips of the drawer can pass
FilterChoices ==
    [projectName |-> FilterValues.projects \cup {<<>>},
     bedrooms    |-> FilterValues.bedrooms \cup {<<>>},
     bathrooms   |-> FilterValues.bathrooms \cup {<<>>},
     sizeRange   |-> SizeOptions \cup {Null}]

\* setFilters((prev) => ({ ...prev, [key]: value }))
handleFilterChange ==
    \E key \in DOMAIN FilterChoices :
        \E value \in FilterChoices[key] :
            /\ filters' = [filters EXCEPT ![key] = value]
            /\ UNCHANGED <<hist, query, config, favorites,
                           isCompareModalOpen, leftFloorPlan, rightFloorPlan,
                           pickerSide, isExpanded, fmt>>

clearFilters ==
    /\ filters' = ClearedFilters
    /\ UNCHANGED <<hist, query, config, favorites,
                   isCompareModalOpen, leftFloorPlan, rightFloorPlan,
                   pickerSide, isExpanded, fmt>>

\* the characters of the bed/bath values given to the formatting functions
FormatChars == {"0", "1", "2", "3", "5", ".", "-", " ", "x"}

FormatInputs == {NullStr} \cup SeqsUpTo(FormatChars, MaxStrLen)

\* a bed/bath value whose labels are not rendered yet
Unrendered(s) == [input |-> s, rendered |-> FALSE]

Labels(s) ==
    [input |-> s, rendered |-> TRUE,
     beds |-> formatBedrooms(s), baths |-> formatBathrooms(s),
     navBeds |-> Nav_formatBedrooms(s), navBaths |-> Nav_formatBathrooms(s)]

\* the bed/bath value is rendered by the modal and by the drawer
RenderBedBath ==
        /\ ~fmt.rendered
        /\ fmt' = Labels(fmt.input)
        /\ Event("format", FALSE)
        /\ UNCHANGED <<query, config, filters, favorites, isCompareModalOpen, leftFloorPlan,
                       rightFloorPlan, pickerSide, isExpanded>>

-----------------------------------------------------------------------------
(* The specifications. *)

InitWith(configs, inputs) ==
    /\ query = [isLoading |-> TRUE, isError |-> FALSE, error |-> Null, data |-> Null]
    /\ config \in configs
    /\ filters = ClearedFilters
    /\ favorites = {}
    /\ isCompareModalOpen = FALSE
    /\ leftFloorPlan = FreshModal.leftFloorPlan
    /\ rightFloorPlan = FreshModal.rightFloorPlan
    /\ pickerSide = FreshModal.pickerSide
    /\ isExpanded = FreshModal.isExpanded
    /\ fmt \in { Unrendered(s) : s \in inputs }
    /\ hist = [last |-> "init", replaced |-> FALSE, dirty |-> FALSE]

Init == InitWith({PlainConfig}, {NullStr})

\* FloorPlans with its comparison modal
Next ==
    \/ FetchUpdate(ModalResults)
    \/ handleToggleFavorite
    \/ handleOpenCompare
    \/ handleCloseCompare
    \/ \E side \in {NoSide, <<0>>, <<1>>} : setPickerSide(side)
    \/ \E i \in 1..Len(ModalPool) : handleReplaceFloorPlan(i)
    \/ toggleZoom

Spec == Init /\ [][Next]_vars

\* the drawer's filters and the grid
NextFilter ==
    \/ FirstFetch(FilterResults)
    \/ handleFilterChange
    \/ clearFilters

InitFilter == InitWith(Configs, {NullStr})

SpecFilter == InitFilter /\ [][NextFilter]_vars

\* the formatting functions
NextFormat == RenderBedBath

InitFormat == InitWith({PlainConfig}, FormatInputs)

SpecFormat == InitFormat /\ [][NextFormat]_vars


-----------------------------------------------------------------------------
(* The properties. *)

\* a is b with some elements left out
RECURSIVE IsSubList(_, _)
IsSubList(a, b) ==
    IF a = <<>> THEN TRUE
    ELSE IF b = <<>> THEN FALSE
    ELSE IF Head(a) = Head(b) THEN IsSubList(Tail(a), Tail(b))
    ELSE IsSubList(a, Tail(b))

IsActive(key, value) == IF key = "sizeRange" THEN value # Null ELSE Truthy(value)

\* C1: the visible list is a sub-list of the fetched list, and making one
\* inactive filter active, the others staying the same, leaves a sub-list of the
\* visible list.
C1_FilterNarrows ==
    /\ IsSubList(filteredFloorPlans, DataList(query))
    /\ \A key \in DOMAIN FilterChoices :
          ~IsActive(key, filters[key]) =>
              \A value \in FilterChoices[key] :
                  IsActive(key, value) =>
                      IsSubList(filteredFloorPlansOf(query, [filters EXCEPT ![key] = value],
                                                     config),
                                filteredFloorPlans)

\* a filter is active and hides some, not all, of the fetched plans
C1_Witness ==
    /\ \E key \in DOMAIN FilterChoices : IsActive(key, filters[key])
    /\ \E key \in DOMAIN FilterChoices : ~IsActive(key, filters[key])
    /\ Len(filteredFloorPlans) >= 1
    /\ Len(filteredFloorPlans) < Len(DataList(query))

\* C2: the list rendered for comparison holds the non-null ones of the left and
\* the right floor plan and nothing else, so at most two elements.
C2_AtMostTwo ==
    /\ Len(floorPlansToCompare) <= 2
    /\ \A i \in 1..Len(floorPlansToCompare) :
          /\ floorPlansToCompare[i] # Null
          /\ floorPlansToCompare[i] \in {leftFloorPlan, rightFloorPlan}

\* the modal shows two floor plans while more than two are favorited
C2_Witness ==
    /\ ModalRendered
    /\ Len(floorPlansToCompare) = 2
    /\ Len(favoritedFloorPlans) > 2

\* the size the claim speaks of: totalSize if present, else interiorSize, else 0
ClaimedSize(fp) ==
    IF Truthy(fp.totalSize) THEN parseInt(fp.totalSize)
    ELSE IF Truthy(fp.interiorSize) THEN parseInt(fp.interiorSize)
    ELSE IntNum(0)

\* every active filter matches the plan, as the claim states it
ClaimedMatch(fp) ==
    /\ Truthy(filters.projectName) =>
          getProjectName(config, fp.projectId) = filters.projectName
    /\ Truthy(filters.bedrooms) => fp.bedRooms = filters.bedrooms
    /\ Truthy(filters.bathrooms) => fp.bathRooms = filters.bathrooms
    /\ filters.sizeRange # Null =>
          /\ ~ClaimedSize(fp).nan
          /\ filters.sizeRange.min <= ClaimedSize(fp).scaled
          /\ ClaimedSize(fp).scaled <= filters.sizeRange.max

\* C3: a fetched floor plan is visible if and only if every active filter
\* matches it, the size filter matching when the size lies in [min, max].
C3_DirectComparison ==
    \A i \in 1..Len(DataList(query)) :
        (DataList(query)[i] \in Range(filteredFloorPlans))
            <=> ClaimedMatch(DataList(query)[i])

\* the same, for the plans whose size string starts with a number
C3_NumericSizes ==
    \A i \in 1..Len(DataList(query)) :
        ~ClaimedSize(DataList(query)[i]).nan =>
            ((DataList(query)[i] \in Range(filteredFloorPlans))
                <=> ClaimedMatch(DataList(query)[i]))

\* the events of FloorPlans and of its comparison modal
ComponentEvent ==
    \/ handleToggleFavorite
    \/ handleOpenCompare
    \/ handleCloseCompare
    \/ \E side \in {NoSide, <<0>>, <<1>>} : setPickerSide(side)
    \/ \E i \in 1..Len(ModalPool) : handleReplaceFloorPlan(i)
    \/ toggleZoom

\* C4: in the error state and not loading, FloorPlans renders the inline error
\* message and nothing else: no grid, no Compare button, no detail modal, no
\* comparison modal, and no element whose handler could start anything.
C4_InlineError ==
    query.isError /\ ~query.isLoading =>
        /\ View = [kind |-> "error",
                   text |-> <<"Error loading floor plans: ",
                              IF query.error # Null /\ query.error.message # ""
                              THEN query.error.message ELSE "Unknown error">>,
                   grid |-> FALSE, cards |-> <<>>, compareButton |-> FALSE,
                   detailModal |-> FALSE, comparisonModal |-> FALSE, handlers |-> {}]
        /\ ~ModalRendered
        /\ ~ENABLED ComponentEvent

\* a fetch failed without a message, after data had arrived and with the
\* comparison left open
C4_Witness ==
    /\ query.isError /\ ~query.isLoading
    /\ Len(DataList(query)) > 0
    /\ isCompareModalOpen
    /\ query.error = Null

\* the label the claim gives a value of whole part w
ClaimedLabel(w, hasFraction, unit, extra) ==
    NatToStr(w) \o unit \o (IF w = 1 THEN <<>> ELSE <<"s">>)
        \o (IF hasFraction THEN extra ELSE <<>>)

\* C5: for a numeric value that is not negative, formatBedrooms gives "w Bed",
\* an "s" unless w = 1, and " + Den" exactly when the value has a fractional
\* part; formatBathrooms the same with "Bath" and " + Powder"; 3.5 gives
\* "3 Beds + Den" and 2.5 gives "2 Baths + Powder"; and for every numeric value
\* the drawer's functions give what the modal's give.
C5_Formatting ==
    /\ formatBedrooms(<<"3", ".", "5">>)
          = <<"3", " ", "B", "e", "d", "s", " ", "+", " ", "D", "e", "n">>
    /\ formatBathrooms(<<"2", ".", "5">>)
          = <<"2", " ", "B", "a", "t", "h", "s", " ", "+", " ",
              "P", "o", "w", "d", "e", "r">>
    /\ fmt.rendered /\ Truthy(fmt.input) /\ ~parseFloat(fmt.input).nan =>
          LET num == parseFloat(fmt.input)
              w   == num.scaled \div num.scale
              fr  == num.scaled % num.scale # 0
          IN  /\ num.scaled >= 0 =>
                    /\ fmt.beds = ClaimedLabel(w, fr, S_Bed, S_Den)
                    /\ fmt.baths = ClaimedLabel(w, fr, S_Bath, S_Powder)
              /\ fmt.navBeds = fmt.beds
              /\ fmt.navBaths = fmt.baths

\* 3.5 was rendered
C5_Witness ==
    /\ fmt.rendered
    /\ fmt.input = <<"3", ".", "5">>
    /\ fmt.navBeds = <<"3", " ", "B", "e", "d", "s", " ", "+", " ", "D", "e", "n">>

\* C6: whenever isOpen goes from false to true with two favorited floor plans or
\* more, the left side is the first and the right side the second of them once
\* the effects have run.
C6_InitOnOpen ==
    [][ (~isCompareModalOpen /\ isCompareModalOpen' /\ Len(favoritedFloorPlans') >= 2)
        => /\ leftFloorPlan' = favoritedFloorPlans'[1]
           /\ rightFloorPlan' = favoritedFloorPlans'[2] ]_vars

\* the modal was reopened after a side had been replaced
C6_Witness ==
    /\ hist.last = "open"
    /\ hist.replaced
    /\ ModalRendered
    /\ leftFloorPlan = favoritedFloorPlans[1]
    /\ rightFloorPlan = favoritedFloorPlans[2]

\* C7: every candidate of the picker is a favorited floor plan with a non-empty
\* id that differs from the ids of the left and of the right floor plan; there
\* is no candidate while the modal is closed.
C7_Candidates ==
    /\ \A i \in 1..Len(candidateFloorPlans) :
          /\ candidateFloorPlans[i] \in Range(favoritedFloorPlans)
          /\ Truthy(candidateFloorPlans[i].id)
          /\ candidateFloorPlans[i].id # IdOf(leftFloorPlan)
          /\ candidateFloorPlans[i].id # IdOf(rightFloorPlan)
    /\ ~isCompareModalOpen => candidateFloorPlans = <<>>

\* the picker is open with a candidate, and leaves out a favorite that is not
\* one of the two compared
C7_Witness ==
    /\ ModalRendered
    /\ pickerSide # NoSide
    /\ Len(candidateFloorPlans) >= 1
    /\ Len(favoritedFloorPlans) - Len(candidateFloorPlans) > 2

\* C8: choosing a candidate in the picker opened for a side sets that side to
\* the candidate, closes the picker, and leaves the other side, the expanded
\* flag and the favorites as they were.
C8_ReplaceOneSide ==
    [][ \A i \in 1..Len(ModalPool) :
          handleReplaceFloorPlan(i) =>
              /\ pickerSide[1] = 0 =>
                    /\ leftFloorPlan' = candidateFloorPlans[i]
                    /\ rightFloorPlan' = rightFloorPlan
              /\ pickerSide[1] = 1 =>
                    /\ rightFloorPlan' = candidateFloorPlans[i]
                    /\ leftFloorPlan' = leftFloorPlan
              /\ pickerSide' = NoSide
              /\ isExpanded' = isExpanded
              /\ favorites' = favorites ]_vars

\* a side was just replaced: the modal no longer shows the first two favorites
C8_Witness ==
    /\ hist.last = "replace"
    /\ ModalRendered
    /\ pickerSide = NoSide
    /\ \/ leftFloorPlan # favoritedFloorPlans[1]
       \/ rightFloorPlan # favoritedFloorPlans[2]

\* C9: while isOpen is false the picker is closed and the images are not
\* expanded, so an opening starts with the picker closed and the details shown.
C9_ResetOnClose ==
    /\ ~isCompareModalOpen => pickerSide = NoSide /\ ~isExpanded
    /\ hist.last = "open" => pickerSide = NoSide /\ ~isExpanded

\* the modal was closed with its picker open and its images expanded
C9_Witness ==
    /\ hist.last = "close"
    /\ hist.dirty
    /\ ~isCompareModalOpen
    /\ pickerSide = NoSide /\ ~isExpanded

\* C10: the drawer's result count is the number of plans FloorPlans keeps.
C10_CountMatchesGrid == filteredCount = Len(filteredFloorPlans)

\* a filter is active and the count is neither zero nor the whole list
C10_Witness ==
    /\ \E key \in DOMAIN FilterChoices : IsActive(key, filters[key])
    /\ filteredCount >= 1
    /\ filteredCount < Len(DataList(query))
    /\ filters.sizeRange # Null

\* the number of fetched floor plans whose id is in the favorites store
FavoritedInData ==
    Cardinality({ i \in 1..Len(DataList(query)) : DataList(query)[i].id \in favorites })

\* the events of the comparison modal
ModalEvent ==
    \/ handleCloseCompare
    \/ \E side \in {NoSide, <<0>>, <<1>>} : setPickerSide(side)
    \/ \E i \in 1..Len(ModalPool) : handleReplaceFloorPlan(i)
    \/ toggleZoom

\* the comparison modal renders nothing, so none of its elements can be used,
\* when it is not open or fewer than two fetched floor plans are favorited
ModalHiddenWhenNotOffered ==
    ~isCompareModalOpen \/ FavoritedInData < 2 =>
        /\ ~ModalRendered
        /\ ~ENABLED ModalEvent

\* C11 as stated: the Compare button is rendered, and can be clicked, if and
\* only if two or more fetched floor plans have their id in the favorites
\* store; the comparison modal renders nothing when it is not open or fewer
\* than two are favorited.
C11_CompareOffered ==
    /\ View.compareButton <=> FavoritedInData >= 2
    /\ View.compareButton <=> "handleOpenCompare" \in View.handlers
    /\ ModalHiddenWhenNotOffered

\* C11, amended: while FloorPlans renders its grid the Compare button is
\* rendered if and only if two or more fetched floor plans have their id in
\* the favorites store, and in the loading, error and empty views it is not
\* rendered; the comparison modal renders nothing when it is not open or fewer
\* than two are favorited.
C11_CompareOfferedInGrid ==
    /\ View.grid => (View.compareButton <=> FavoritedInData >= 2)
    /\ ~View.grid => ~View.compareButton
    /\ View.compareButton <=> "handleOpenCompare" \in View.handlers
    /\ ModalHiddenWhenNotOffered

\* the grid is shown with the open flag still set, two ids in the store and
\* fewer than two of them in the data: no button, no modal
C11_Witness ==
    /\ View.grid
    /\ isCompareModalOpen
    /\ Cardinality(favorites) >= 2
    /\ FavoritedInData < 2
    /\ ~View.compareButton
    /\ ~ModalRendered

\* C12: whenever the comparison modal is displayed, the left and the right
\* floor plan are both elements of the current favoritedFloorPlans, also after
\* the favorites or the fetched data changed while the modal was open.
C12_ComparedAreFavorites ==
    ModalRendered =>
        /\ leftFloorPlan \in Range(favoritedFloorPlans)
        /\ rightFloorPlan \in Range(favoritedFloorPlans)

\* a favorite was toggled while the open flag was set, and the modal is
\* displayed with more favorites than it compares
C12_Witness ==
    /\ hist.last = "favorite"
    /\ ModalRendered
    /\ Len(favoritedFloorPlans) > 2
    /\ leftFloorPlan = favoritedFloorPlans[1]
    /\ rightFloorPlan = favoritedFloorPlans[2]

=============================================================================
